---- MODULE Spec2Model ----
(***************************************************************************)
(* The NASA publications knowledge graph: the two Streamlit entry points   *)
(* src/adi.py (MongoDB with JSON fallback, fields normalised by            *)
(* _clean_text) and src/visualize.py (JSON only, fields used raw).         *)
(*                                                                         *)
(* Text is a sequence of one-character strings, so that the regular        *)
(* expressions and string tests of the source are computed character by    *)
(* character.  A Python value read from a record is [k, s, n]: k = "none", *)
(* "str" (text s) or "int" (number n).  A graph is networkx's dictionary   *)
(* pair: the node keys in insertion order with their attributes, and per   *)
(* node the neighbour keys in insertion order.                             *)
(***************************************************************************)
EXTENDS Integers, Sequences, FiniteSets, TLC

VARIABLES
    variant,            \* which entry point runs: "adi" or "visualize"
    mongo,              \* adi.py: "none" (import failed), "raises", "ok"
    mongoDocs,          \* the documents the collection's cursor yields, in order
    fileExists,         \* sb_publication_output.json is there
    fileDocs,           \* its parsed content, in file order
    pc,                 \* position in the script
    data, idx,          \* load_graph_data: the mapping iterated and the next record
    built_G, data_source, \* load_graph_data: its graph G being built, the source used
    ret,                \* what load_graph_data returned
    full_G,             \* the assembled graph
    DATA_SOURCE,
    messages,           \* st.error / st.sidebar.error / st.warning shown
    total_publications, slider_min, slider_max, default_val,
    max_pubs, selected_types,
    final_G,
    prev_G,             \* nodes, attributes and edges of the graph of the run before
    reran,              \* the script has been run again on the same records
    text_in, text_out   \* an argument and result of _clean_text

vars == <<variant, mongo, mongoDocs, fileExists, fileDocs, pc, data, idx, built_G,
          data_source, ret, full_G,
          DATA_SOURCE, messages, total_publications, slider_min, slider_max,
          default_val, max_pubs, selected_types, final_G, prev_G, reran,
          text_in, text_out>>

----------------------------------------------------------------------------
(* Characters *)

UpperSeq == <<"A","B","C","D","E","F","G","H","I","J","K","L","M",
              "N","O","P","Q","R","S","T","U","V","W","X","Y","Z">>
LowerSeq == <<"a","b","c","d","e","f","g","h","i","j","k","l","m",
              "n","o","p","q","r","s","t","u","v","w","x","y","z">>
DigitSeq == <<"0","1","2","3","4","5","6","7","8","9">>

Range(s) == { s[i] : i \in DOMAIN s }

Uppers == Range(UpperSeq)
Lowers == Range(LowerSeq)
Digits == Range(DigitSeq)
\* \w of the re module
WordChars == Uppers \cup Lowers \cup Digits \cup {"_"}
\* \s of the re module, and what str.strip() removes
SpaceChars == {" ", "\t", "\n", "\r"}

IsAlpha(c) == c \in Uppers \/ c \in Lowers
IsDigit(c) == c \in Digits
IsWord(c)  == c \in WordChars
IsSpace(c) == c \in SpaceChars

ToLower == [c \in Uppers |-> LowerSeq[CHOOSE i \in DOMAIN UpperSeq : UpperSeq[i] = c]]
ToUpper == [c \in Lowers |-> UpperSeq[CHOOSE i \in DOMAIN LowerSeq : LowerSeq[i] = c]]

LowerChar(c) == IF c \in Uppers THEN ToLower[c] ELSE c
UpperChar(c) == IF c \in Lowers THEN ToUpper[c] ELSE c

\* str.lower()
Lower(t) == [i \in DOMAIN t |-> LowerChar(t[i])]

\* str.title(): a letter after a non-letter is upper-cased, the others lower-cased
TitleCase(t) ==
    [i \in DOMAIN t |->
        IF i = 1 \/ ~IsAlpha(t[i - 1]) THEN UpperChar(t[i]) ELSE LowerChar(t[i])]

Min(a, b) == IF a <= b THEN a ELSE b

\* t[i:]  (i counted from 1)
From(t, i) == SubSeq(t, i, Len(t))

\* the text at position i of t reads lit, letter case ignored (lit is lower-case)
LitAt(t, i, lit) ==
    /\ i + Len(lit) - 1 <= Len(t)
    /\ \A j \in 1 .. Len(lit) : LowerChar(t[i + j - 1]) = lit[j]

\* the first position >= i of t whose character is not in the class (Len(t)+1 when none)
RECURSIVE SkipSpace(_, _)
SkipSpace(t, i) == IF i <= Len(t) /\ IsSpace(t[i]) THEN SkipSpace(t, i + 1) ELSE i
RECURSIVE SkipDigits(_, _)
SkipDigits(t, i) == IF i <= Len(t) /\ IsDigit(t[i]) THEN SkipDigits(t, i + 1) ELSE i
RECURSIVE SkipPunct(_, _)
SkipPunct(t, i) ==
    IF i <= Len(t) /\ t[i] \in {":", "\n", "\r", "-"} THEN SkipPunct(t, i + 1) ELSE i

\* \b of the re module at the gap before position i
Boundary(t, i) ==
    LET before == i > 1 /\ IsWord(t[i - 1])
        after  == i <= Len(t) /\ IsWord(t[i])
    IN  before # after

\* str.strip()
RECURSIVE RStrip(_)
RStrip(t) == IF t # <<>> /\ IsSpace(t[Len(t)]) THEN RStrip(SubSeq(t, 1, Len(t) - 1)) ELSE t
Strip(t) == RStrip(From(t, SkipSpace(t, 1)))

\* re.sub(r'\s+', ' ', t)
RECURSIVE CollapseSpace(_)
CollapseSpace(t) ==
    IF t = <<>> THEN <<>>
    ELSE IF IsSpace(t[1]) THEN <<" ">> \o CollapseSpace(From(t, SkipSpace(t, 1)))
    ELSE <<t[1]>> \o CollapseSpace(Tail(t))

\* needle in t
Contains(t, needle) ==
    \E i \in 1 .. Len(t) + 1 :
        /\ i + Len(needle) - 1 <= Len(t)
        /\ \A j \in 1 .. Len(needle) : t[i + j - 1] = needle[j]

\* str(n) for n >= 0
RECURSIVE IntToStr(_)
IntToStr(n) == IF n < 10 THEN <<DigitSeq[n + 1]>>
               ELSE IntToStr(n \div 10) \o <<DigitSeq[(n % 10) + 1]>>

----------------------------------------------------------------------------
(* Python values *)

None   == [k |-> "none", s |-> <<>>, n |-> 0]
Str(t) == [k |-> "str", s |-> t, n |-> 0]
Num(i) == [k |-> "int", s |-> <<>>, n |-> i]

\* str(v)
PyStr(v) == CASE v.k = "str" -> v.s
              [] v.k = "int" -> IntToStr(v.n)
              [] OTHER       -> <<"N", "o", "n", "e">>

\* bool(v)
Truthy(v) == CASE v.k = "str" -> v.s # <<>>
               [] v.k = "int" -> v.n # 0
               [] OTHER       -> FALSE

\* v or ''
OrEmpty(v) == IF Truthy(v) THEN v ELSE Str(<<>>)

----------------------------------------------------------------------------
(* _clean_text *)

L_Abstract == <<"a", "b", "s", "t", "r", "a", "c", "t">>
L_Introduction == <<"i", "n", "t", "r", "o", "d", "u", "c", "t", "i", "o", "n">>

\* the end of the match of ^\s*(Abstract|Introduction)\s*[:\n\r\-]*\s* in t
\* (the first position after it), or 0 when the pattern does not match
LabelMatchEnd(t) ==
    LET i   == SkipSpace(t, 1)
        len == IF LitAt(t, i, L_Abstract) THEN Len(L_Abstract)
               ELSE IF LitAt(t, i, L_Introduction) THEN Len(L_Introduction)
               ELSE 0
    IN  IF len = 0 THEN 0
        ELSE SkipSpace(t, SkipPunct(t, SkipSpace(t, i + len)))

StripLabel(t) == IF LabelMatchEnd(t) = 0 THEN t ELSE From(t, LabelMatchEnd(t))

StripQuotes(t) ==
    IF t # <<>> /\ (  (t[1] = "\"" /\ t[Len(t)] = "\"")
                   \/ (t[1] = "'" /\ t[Len(t)] = "'"))
    THEN SubSeq(t, 2, Len(t) - 1)
    ELSE t

clean_text(v) ==
    IF v.k = "none" THEN <<>>
    ELSE Strip(CollapseSpace(StripQuotes(StripLabel(PyStr(v)))))

----------------------------------------------------------------------------
(* Records.  A value of the mapping is a dict (isdict) with the fields in   *)
(* `has`, or something else (a list, a number, a string).                   *)

Fields == {"Title", "Abstract", "Introduction", "Link"}

NotADict == [isdict |-> FALSE, has |-> {}, val |-> [f \in Fields |-> None]]

\* doc.get(f, '')
Get(doc, f) == IF f \in doc.has THEN doc.val[f] ELSE Str(<<>>)

\* the dict adi.py builds from a document: every field present and normalised
CleanDoc(doc) ==
    [isdict |-> TRUE, has |-> Fields,
     val |-> [f \in Fields |-> Str(clean_text(Get(doc, f)))]]

\* adi.py, the fallback branch: the values that are not dicts are left out
RECURSIVE CleanJson(_)
CleanJson(entries) ==
    IF entries = <<>> THEN <<>>
    ELSE LET e == Head(entries)
         IN  (IF e.doc.isdict THEN <<[id |-> e.id, doc |-> CleanDoc(e.doc)]>> ELSE <<>>)
             \o CleanJson(Tail(entries))

\* adi.py, the MongoDB branch: every document of the cursor is normalised
CleanMongo(entries) ==
    [i \in DOMAIN entries |-> [id |-> entries[i].id, doc |-> CleanDoc(entries[i].doc)]]

----------------------------------------------------------------------------
(* Entity extraction *)

M_BionM == <<"b", "i", "o", "n", "-", "m">>
M_STS == <<"s", "t", "s", "-">>
M_ISS == <<"i", "s", "s">>
M_IntlSS == <<"i", "n", "t", "e", "r", "n", "a", "t", "i", "o", "n", "a", "l", " ",
              "s", "p", "a", "c", "e", " ", "s", "t", "a", "t", "i", "o", "n">>
M_Shuttle == <<"s", "p", "a", "c", "e", " ", "s", "h", "u", "t", "t", "l", "e">>
M_Spacelab == <<"s", "p", "a", "c", "e", "l", "a", "b">>
M_NeuroLab == <<"n", "e", "u", "r", "o", "l", "a", "b">>

\* a fixed word w at i followed by \b: the end of the match, or 0
WordEnd(t, i, w) ==
    IF LitAt(t, i, w) /\ Boundary(t, i + Len(w)) THEN i + Len(w) ELSE 0

\* the end (first position after) of the match at i of
\*   \b(Bion-M\s?\d+|STS-\d+|ISS|International Space Station|Space Shuttle|Spacelab-?\d*|NeuroLab)\b
\* with IGNORECASE, or 0 when it does not match at i.  The alternatives differ in
\* their first two letters, so at most one of them can start at i; within one, the
\* greedy quantifiers give way in the order the re module tries them.
MissionEnd(t, i) ==
    IF ~Boundary(t, i) THEN 0
    ELSE IF LitAt(t, i, M_BionM) THEN
        LET j == i + Len(M_BionM)
            d == IF j <= Len(t) /\ IsSpace(t[j]) THEN j + 1 ELSE j
            e == SkipDigits(t, d)
        IN  IF e > d /\ Boundary(t, e) THEN e ELSE 0
    ELSE IF LitAt(t, i, M_STS) THEN
        LET d == i + Len(M_STS)
            e == SkipDigits(t, d)
        IN  IF e > d /\ Boundary(t, e) THEN e ELSE 0
    ELSE IF LitAt(t, i, M_Spacelab) THEN
        LET j == i + Len(M_Spacelab)
        IN  IF j <= Len(t) /\ t[j] = "-"
            THEN LET e == SkipDigits(t, j + 1)
                 IN  IF e > j + 1 /\ Boundary(t, e) THEN e   \* Spacelab-12
                     ELSE IF Boundary(t, j + 1) THEN j + 1   \* Spacelab- before a word
                     ELSE j                                  \* Spacelab
            ELSE LET e == SkipDigits(t, j)
                 IN  IF Boundary(t, e) THEN e ELSE 0
    ELSE IF WordEnd(t, i, M_ISS) > 0 THEN WordEnd(t, i, M_ISS)
    ELSE IF WordEnd(t, i, M_IntlSS) > 0 THEN WordEnd(t, i, M_IntlSS)
    ELSE IF WordEnd(t, i, M_Shuttle) > 0 THEN WordEnd(t, i, M_Shuttle)
    ELSE WordEnd(t, i, M_NeuroLab)

O_mice == <<"m", "i", "c", "e">>
O_mouse == <<"m", "o", "u", "s", "e">>
O_mus == <<"m", "u", "s", " ", "m", "u", "s", "c", "u", "l", "u", "s">>
O_rats == <<"r", "a", "t", "s">>
O_human == <<"h", "u", "m", "a", "n">>
O_homo == <<"h", "o", "m", "o", " ", "s", "a", "p", "i", "e", "n", "s">>
O_c57 == <<"c", "5", "7", "b", "l", "/", "6">>
O_c57j == <<"c", "5", "7", "b", "l", "/", "6", "j">>

\* the same for \b(mice|mouse|Mus musculus|rats|human|Homo sapiens|C57BL/6J?)\b
OrganismEnd(t, i) ==
    IF ~Boundary(t, i) THEN 0
    ELSE IF WordEnd(t, i, O_mice) > 0 THEN WordEnd(t, i, O_mice)
    ELSE IF WordEnd(t, i, O_mouse) > 0 THEN WordEnd(t, i, O_mouse)
    ELSE IF WordEnd(t, i, O_mus) > 0 THEN WordEnd(t, i, O_mus)
    ELSE IF WordEnd(t, i, O_rats) > 0 THEN WordEnd(t, i, O_rats)
    ELSE IF WordEnd(t, i, O_human) > 0 THEN WordEnd(t, i, O_human)
    ELSE IF WordEnd(t, i, O_homo) > 0 THEN WordEnd(t, i, O_homo)
    ELSE IF WordEnd(t, i, O_c57j) > 0 THEN WordEnd(t, i, O_c57j)
    ELSE WordEnd(t, i, O_c57)

\* set(pattern.findall(t)): the matches, left to right, without overlap
RECURSIVE FindMissions(_, _)
FindMissions(t, i) ==
    IF i > Len(t) THEN {}
    ELSE LET e == MissionEnd(t, i)
         IN  IF e > 0 THEN {SubSeq(t, i, e - 1)} \cup FindMissions(t, e)
             ELSE FindMissions(t, i + 1)

RECURSIVE FindOrganisms(_, _)
FindOrganisms(t, i) ==
    IF i > Len(t) THEN {}
    ELSE LET e == OrganismEnd(t, i)
         IN  IF e > 0 THEN {SubSeq(t, i, e - 1)} \cup FindOrganisms(t, e)
             ELSE FindOrganisms(t, i + 1)

N_Mice == <<"M", "i", "c", "e">>
N_Rats == <<"R", "a", "t", "s">>
N_Humans == <<"H", "u", "m", "a", "n", "s">>

\* organism_mapping.get(org.lower(), org.title())
organism_mapping(org) ==
    LET o == Lower(org)
    IN  IF o \in {O_mice, O_mouse, O_mus, O_c57j, O_c57} THEN N_Mice
        ELSE IF o = O_rats THEN N_Rats
        ELSE IF o \in {O_human, O_homo} THEN N_Humans
        ELSE TitleCase(org)

\* the keywords dict, in its order: <<search text, label>>
keywords ==
  << <<<<"m", "i", "c", "r", "o", "g", "r", "a", "v", "i", "t", "y">>,
       <<"M", "i", "c", "r", "o", "g", "r", "a", "v", "i", "t", "y">>>>,
     <<<<"b", "o", "n", "e">>,
       <<"B", "o", "n", "e">>>>,
     <<<<"m", "u", "s", "c", "l", "e">>,
       <<"M", "u", "s", "c", "l", "e">>>>,
     <<<<"c", "a", "r", "d", "i", "o", "v", "a", "s", "c", "u", "l", "a", "r">>,
       <<"C", "a", "r", "d", "i", "o", "v", "a", "s", "c", "u", "l", "a", "r">>>>,
     <<<<"r", "a", "d", "i", "a", "t", "i", "o", "n">>,
       <<"R", "a", "d", "i", "a", "t", "i", "o", "n">>>>,
     <<<<"o", "x", "i", "d", "a", "t", "i", "v", "e", " ", "s", "t", "r", "e", "s", "s">>,
       <<"O", "x", "i", "d", "a", "t", "i", "v", "e", " ", "S", "t", "r", "e", "s", "s">>>>,
     <<<<"c", "e", "l", "l", " ", "c", "y", "c", "l", "e">>,
       <<"C", "e", "l", "l", " ", "C", "y", "c", "l", "e">>>>,
     <<<<"s", "t", "e", "m", " ", "c", "e", "l", "l">>,
       <<"S", "t", "e", "m", " ", "C", "e", "l", "l", "s">>>>,
     <<<<"o", "s", "t", "e", "o", "b", "l", "a", "s", "t">>,
       <<"O", "s", "t", "e", "o", "b", "l", "a", "s", "t", "s">>>>,
     <<<<"s", "p", "a", "c", "e", "f", "l", "i", "g", "h", "t">>,
       <<"S", "p", "a", "c", "e", "f", "l", "i", "g", "h", "t">>>>,
     <<<<"i", "m", "m", "u", "n", "e">>,
       <<"I", "m", "m", "u", "n", "e", " ", "S", "y", "s", "t", "e", "m">>>>,
     <<<<"g", "e", "n", "e", " ", "e", "x", "p", "r", "e", "s", "s", "i", "o", "n">>,
       <<"G", "e", "n", "e", " ", "E", "x", "p", "r", "e", "s", "s", "i", "o", "n">>>> >>

\* the labels of the keywords found in the text, in the dict's order
FoundKeywords(combined_text) ==
    SelectSeq([i \in DOMAIN keywords |-> keywords[i]],
              LAMBDA kw : Contains(combined_text, kw[1]))

----------------------------------------------------------------------------
(* networkx.Graph *)

EmptyFcn == [x \in {} |-> 0]

\* nx.Graph()
EmptyGraph == [nodes |-> <<>>, attr |-> EmptyFcn, adj |-> EmptyFcn]

\* a node that add_edge had to create has no attributes
NoAttr == [type |-> "", color |-> "", size |-> 0, label |-> <<>>]

HasNode(G, n) == n \in Range(G.nodes)

\* G.add_node(n, type=, color=, size=, label=): a new key goes to the end of the
\* node dict; an old one keeps its place and takes the attributes given
add_node(G, n, a) ==
    IF HasNode(G, n) THEN [G EXCEPT !.attr[n] = a]
    ELSE [nodes |-> Append(G.nodes, n),
          attr  |-> (n :> a) @@ G.attr,
          adj   |-> (n :> <<>>) @@ G.adj]

\* a neighbour list that takes the key again
AdjPut_again(adj, u, v) == [adj EXCEPT ![u] = Append(@, v)]

\* _adj[u][v] = {}: a key already in the dict is not added again
AdjPut(adj, u, v) ==
    IF v \in Range(adj[u]) THEN adj ELSE [adj EXCEPT ![u] = Append(@, v)]

\* an add_edge that makes the two nodes and leaves them unconnected
add_edge_unlinked(G, u, v) ==
    LET G1 == IF HasNode(G, u) THEN G ELSE add_node(G, u, NoAttr)
    IN  IF HasNode(G1, v) THEN G1 ELSE add_node(G1, v, NoAttr)

\* G.add_edge(u, v)
add_edge(G, u, v) ==
    LET G1 == IF HasNode(G, u) THEN G ELSE add_node(G, u, NoAttr)
        G2 == IF HasNode(G1, v) THEN G1 ELSE add_node(G1, v, NoAttr)
    IN  [G2 EXCEPT !.adj = AdjPut(AdjPut(G2.adj, u, v), v, u)]

NodeSet(G) == Range(G.nodes)

\* the edges as unordered pairs (a self-loop is a one-element set)
EdgeSet(G) == UNION { { {u, v} : v \in Range(G.adj[u]) } : u \in NodeSet(G) }

\* [n for n, d in G.nodes(data=True) if d.get('type') == 'Publication']
PubNodes(G) == SelectSeq(G.nodes, LAMBDA n : G.attr[n].type = "Publication")

\* every order a Python set of these elements can be iterated in
Orders(S) ==
    { s \in [1 .. Cardinality(S) -> S] : \A i, j \in DOMAIN s : i # j => s[i] # s[j] }

\* The node orders of the view G.subgraph(ns).  networkx walks the graph's node
\* dict and keeps the nodes of ns, unless ns has fewer than half as many nodes
\* as the graph: it then walks the set ns, whose order is unspecified.
SubgraphOrders(G, ns) ==
    LET keep == ns \cap NodeSet(G)
    IN  IF 2 * Cardinality(ns) < Len(G.nodes)
        THEN Orders(keep)
        ELSE { SelectSeq(G.nodes, LAMBDA n : n \in keep) }

\* G.subgraph(ns), its nodes iterated in the given order
Subgraph(G, ns, order) ==
    [nodes |-> order,
     attr  |-> [n \in Range(order) |-> G.attr[n]],
     adj   |-> [n \in Range(order) |-> SelectSeq(G.adj[n], LAMBDA m : m \in ns)]]

----------------------------------------------------------------------------
(* load_graph_data: the loop over the records *)

TitleMax == 100
PubSize == 18
MissionSize == 14
KeywordSize == 10
OrganismSize == 12

type_colors(type) ==
    CASE type = "Publication" -> "#ff6f61"
      [] type = "Mission"     -> "#9e9ac8"
      [] type = "Keyword"     -> "#74c476"
      [] type = "Organism"    -> "#6baed6"
      [] OTHER                -> "#fdae6b"

S_pub_ == <<"p", "u", "b", "_">>

\* f"pub_{doc_id}"
pub_id(doc_id) == S_pub_ \o doc_id

\* the record passes `isinstance(doc, dict)` and `not title or len(title) < 5`
\* (len is reached only for a title that is not falsy)
Passes(doc) ==
    /\ doc.isdict
    /\ Truthy(Get(doc, "Title"))
    /\ Get(doc, "Title").k = "str"
    /\ Len(Get(doc, "Title").s) >= 5

\* the loop body raises TypeError on this record: len() of a number, findall on a
\* number, or str + number
Raises(doc) ==
    /\ doc.isdict
    /\ Truthy(Get(doc, "Title"))
    /\ \/ Get(doc, "Title").k # "str"
       \/ /\ Len(Get(doc, "Title").s) >= 5
          /\ \/ OrEmpty(Get(doc, "Introduction")).k # "str"
             \/ OrEmpty(Get(doc, "Abstract")).k # "str"

\* set(mission_pattern.findall(intro)) of a record that passes, else nothing
RecMissions(doc) ==
    IF Passes(doc) THEN FindMissions(OrEmpty(Get(doc, "Introduction")).s, 1) ELSE {}

\* f"{title} {abstract}".lower()
combined_text(doc) ==
    Lower(Get(doc, "Title").s \o <<" ">> \o OrEmpty(Get(doc, "Abstract")).s)

\* set(organism_pattern.findall(intro + ' ' + abstract))
RecOrganisms(doc) ==
    IF Passes(doc)
    THEN FindOrganisms(OrEmpty(Get(doc, "Introduction")).s \o <<" ">>
                         \o OrEmpty(Get(doc, "Abstract")).s, 1)
    ELSE {}

\* a key that folds the letter case of the match while the label keeps it
MissionKey_folded(mission) == Lower(Strip(mission))

\* the key of the node of a mission match
MissionKey(mission) == Strip(mission)

RECURSIVE AddMissions(_, _, _)
AddMissions(G, pub, ms) ==
    IF ms = <<>> THEN G
    ELSE LET mission_clean == MissionKey(Head(ms))
             G1 == add_node(G, mission_clean,
                            [type |-> "Mission", color |-> type_colors("Mission"),
                             size |-> MissionSize, label |-> Strip(Head(ms))])
         IN  AddMissions(add_edge(G1, pub, mission_clean), pub, Tail(ms))

RECURSIVE AddKeywords(_, _, _)
AddKeywords(G, pub, kws) ==
    IF kws = <<>> THEN G
    ELSE LET keyword_label == Head(kws)[2]
             G1 == add_node(G, keyword_label,
                            [type |-> "Keyword", color |-> type_colors("Keyword"),
                             size |-> KeywordSize, label |-> keyword_label])
         IN  AddKeywords(add_edge(G1, pub, keyword_label), pub, Tail(kws))

RECURSIVE AddOrganisms(_, _, _)
AddOrganisms(G, pub, orgs) ==
    IF orgs = <<>> THEN G
    ELSE LET org_label == organism_mapping(Head(orgs))
             G1 == add_node(G, org_label,
                            [type |-> "Organism", color |-> type_colors("Organism"),
                             size |-> OrganismSize, label |-> org_label])
         IN  AddOrganisms(add_edge(G1, pub, org_label), pub, Tail(orgs))

\* one round of `for doc_id, doc in data.items()` on a record that does not
\* raise; missions and organisms are the orders the two sets are iterated in
AddRecord(G, e, missions, organisms) ==
    IF ~Passes(e.doc) THEN G
    ELSE LET title == Get(e.doc, "Title").s
             pub   == pub_id(e.id)
             G1 == add_node(G, pub,
                            [type |-> "Publication", color |-> type_colors("Publication"),
                             size |-> PubSize,
                             label |-> SubSeq(title, 1, Min(TitleMax, Len(title)))])
             G2 == AddMissions(G1, pub, missions)
             G3 == AddKeywords(G2, pub, FoundKeywords(combined_text(e.doc)))
         IN  AddOrganisms(G3, pub, organisms)

----------------------------------------------------------------------------
(* The records the sources can hold *)

T_Effects ==
    <<"E", "f", "f", "e", "c", "t", "s", " ", "o", "f", " ", "M", "i", "c", "r",
    "o", "g", "r", "a", "v", "i", "t", "y", " ", "o", "n", " ", "M", "o", "u",
    "s", "e", " ", "B", "o", "n", "e", " ", "i", "n", " ", "I", "S", "S", " ",
    "M", "i", "s", "s", "i", "o", "n", "s">>
A_Effects ==
    <<"m", "i", "c", "r", "o", "g", "r", "a", "v", "i", "t", "y", " ", "b", "o",
    "n", "e">>
I_Effects ==
    <<"A", "b", "o", "a", "r", "d", " ", "t", "h", "e", " ", "I", "S", "S", ",",
    " ", "m", "i", "c", "e", " ", "w", "e", "r", "e", " ", "s", "t", "u", "d",
    "i", "e", "d", ".">>
T_Immune == <<"I", "m", "m", "u", "n", "e", " ", "c", "e", "l", "l", "s">>
I_Immune == <<"t", "h", "e", " ", "i", "s", "s", " ", "o", "n", " ", "I", "S", "S">>
A_Immune == <<"m", "o", "u", "s", "e", " ", "m", "i", "c", "e">>
T_Hi == <<"H", "i">>
A_Hi == <<"b", "o", "n", "e", " ", "r", "a", "d", "i", "a", "t", "i", "o", "n">>
I_Hi == <<"I", "S", "S">>
T_Padded == <<" ", " ", "H", "i", " ", " ">>
A_Padded == <<"m", "u", "s", "c", "l", "e">>
T_Paper == <<"P", "a", "p", "e", "r">>

Doc(has, title, abstract, intro) ==
    [isdict |-> TRUE, has |-> has,
     val |-> [Title |-> title, Abstract |-> abstract, Introduction |-> intro,
              Link |-> Str(<<>>)]]

\* the record of the end-to-end scenario
DocEffects == Doc(Fields, Str(T_Effects), Str(A_Effects), Str(I_Effects))
\* a second record on the ISS and on mice, in two spellings each
DocImmune  == Doc(Fields, Str(T_Immune), Str(A_Immune), Str(I_Immune))
\* a title too short, with matches in the other fields
DocHi      == Doc(Fields, Str(T_Hi), Str(A_Hi), Str(I_Hi))
\* a title that is long enough only before it is normalised; no Introduction
DocPadded  == Doc({"Title", "Abstract", "Link"}, Str(T_Padded), Str(A_Padded), None)
\* a title that is a number, a null Abstract, no Introduction
DocNumber  == Doc({"Title", "Abstract"}, Num(12345), None, None)
\* a plain record without entities
DocPaper   == Doc({"Title"}, Str(T_Paper), None, None)

\* documents of a MongoDB collection are dicts; a JSON value need not be one
MongoPool == {DocEffects, DocImmune, DocHi, DocPadded, DocNumber}
JsonPool  == MongoPool \cup {NotADict}

\* the longest mapping drawn from the pools
MaxRecs == 2

\* a mapping in iteration order: the i-th record read has document id str(i)
Mappings(pool) ==
    UNION { { [i \in 1 .. n |-> [id |-> IntToStr(i), doc |-> f[i]]] : f \in [1 .. n -> pool] } :
            n \in 0 .. MaxRecs }

\* the default of the slider
DefaultPubs == 50

\* n plain records: around the slider's default
Bulk(n) == [i \in 1 .. n |-> [id |-> IntToStr(i), doc |-> DocPaper]]
BulkMappings == { Bulk(n) : n \in {DefaultPubs - 1, DefaultPubs, DefaultPubs + 1} }

Reverse(s) == [i \in DOMAIN s |-> s[Len(s) + 1 - i]]

\* the orders the same records can come in on another run
Reorderings(s) ==
    IF Len(s) <= MaxRecs
    THEN { [i \in DOMAIN s |-> s[o[i]]] : o \in Orders(DOMAIN s) }
    ELSE { s, Reverse(s) }

----------------------------------------------------------------------------
(* The script *)

NoReturn == [kind |-> "none", graph |-> EmptyGraph, source |-> "unknown"]
NoView   == [nodes |-> {}, attr |-> EmptyFcn, adj |-> EmptyFcn]

\* what of a graph does not depend on the order of insertion
Snapshot(G) == [nodes |-> NodeSet(G), attr |-> G.attr, edges |-> EdgeSet(G)]

ScriptStart ==
    /\ pc = "start"
    /\ data = <<>> /\ idx = 0 /\ built_G = EmptyGraph /\ data_source = "unknown"
    /\ ret = NoReturn
    /\ full_G = EmptyGraph
    /\ DATA_SOURCE = "unknown"
    /\ messages = {}
    /\ total_publications = 0 /\ slider_min = 0 /\ slider_max = 0 /\ default_val = 0
    /\ max_pubs = 0
    /\ selected_types = {}
    /\ final_G = NoView

Init ==
    /\ variant \in {"adi", "visualize"}
    /\ mongo \in (IF variant = "adi" THEN {"none", "raises", "ok"} ELSE {"none"})
    /\ mongoDocs \in (IF mongo = "ok" THEN Mappings(MongoPool) \cup BulkMappings ELSE {<<>>})
    /\ fileExists \in (IF mongoDocs = <<>> THEN BOOLEAN ELSE {FALSE})
    /\ fileDocs \in (IF fileExists THEN Mappings(JsonPool) \cup BulkMappings ELSE {<<>>})
    /\ ScriptStart
    /\ prev_G = Snapshot(EmptyGraph)
    /\ reran = FALSE
    /\ text_in = None
    /\ text_out = <<>>

\* adi.py load_graph_data up to the loop: the mapping to build from, its source,
\* the messages shown, and whether the function returned early
AdiData ==
    LET fromMongo == IF mongo = "ok" THEN CleanMongo(mongoDocs) ELSE <<>>
        failed    == IF mongo = "raises" THEN {"MongoDB load failed"} ELSE {}
    IN  IF fromMongo # <<>>
        THEN [data |-> fromMongo, source |-> "mongo", msgs |-> failed, found |-> TRUE]
        ELSE IF fileExists
        THEN [data |-> CleanJson(fileDocs), source |-> "json", msgs |-> failed,
              found |-> TRUE]
        ELSE [data |-> <<>>, source |-> "unknown",
              msgs |-> failed \cup {"fallback JSON not found"}, found |-> FALSE]

\* visualize.py load_graph_data up to the loop
VisualizeData ==
    IF fileExists
    THEN [data |-> fileDocs, source |-> "json", msgs |-> {}, found |-> TRUE]
    ELSE [data |-> <<>>, source |-> "unknown", msgs |-> {"JSON not found"},
          found |-> FALSE]

\* what `return G, data_source` (adi.py) and `return G` (visualize.py) hand back
Returned(G, source) ==
    IF variant = "adi" THEN [kind |-> "pair", graph |-> G, source |-> source]
    ELSE [kind |-> "graph", graph |-> G, source |-> source]

\* the call load_graph_data(), up to the loop over the records
LoadGraphData ==
    /\ pc = "start"
    /\ LET d == IF variant = "adi" THEN AdiData ELSE VisualizeData
       IN  /\ messages' = messages \cup d.msgs
           /\ data' = d.data
           /\ data_source' = d.source
           /\ IF ~d.found
              THEN \* except FileNotFoundError: return nx.Graph()
                   /\ ret' = [kind |-> "graph", graph |-> EmptyGraph, source |-> d.source]
                   /\ idx' = idx
                   /\ pc' = "returned"
              ELSE /\ ret' = ret
                   /\ idx' = 1
                   /\ pc' = "loop"
    /\ built_G' = EmptyGraph
    /\ UNCHANGED <<variant, mongo, mongoDocs, fileExists, fileDocs, full_G, DATA_SOURCE,
                   total_publications, slider_min, slider_max, default_val, max_pubs,
                   selected_types, final_G, prev_G, reran, text_in, text_out>>

\* one round of the loop; an exception of the body leaves the function and ends
\* the run of the script
LoopRecord ==
    /\ pc = "loop"
    /\ idx <= Len(data)
    /\ IF Raises(data[idx].doc)
       THEN /\ pc' = "raised"
            /\ UNCHANGED <<built_G, idx>>
       ELSE /\ \E missions \in Orders(RecMissions(data[idx].doc)),
                  organisms \in Orders(RecOrganisms(data[idx].doc)) :
                    built_G' = AddRecord(built_G, data[idx], missions, organisms)
            /\ idx' = idx + 1
            /\ pc' = pc
    /\ UNCHANGED <<variant, mongo, mongoDocs, fileExists, fileDocs, data, data_source,
                   ret, full_G, DATA_SOURCE, messages, total_publications, slider_min,
                   slider_max, default_val, max_pubs, selected_types, final_G, prev_G,
                   reran, text_in, text_out>>

\* return G, data_source / return G
Return ==
    /\ pc = "loop"
    /\ idx > Len(data)
    /\ ret' = Returned(built_G, data_source)
    /\ pc' = "returned"
    /\ UNCHANGED <<variant, mongo, mongoDocs, fileExists, fileDocs, data, idx, built_G,
                   data_source, full_G, DATA_SOURCE, messages, total_publications,
                   slider_min, slider_max, default_val, max_pubs, selected_types,
                   final_G, prev_G, reran, text_in, text_out>>

\* adi.py: full_G, DATA_SOURCE = <returned>; visualize.py: full_G = <returned>.
\* Unpacking a graph iterates its node keys: it needs exactly two of them, and
\* a key is no graph.
Unpack ==
    /\ pc = "returned"
    /\ IF variant = "adi" /\ ret.kind # "pair"
       THEN /\ pc' = "crashed"
            /\ UNCHANGED <<full_G, DATA_SOURCE>>
       ELSE /\ pc' = "loaded"
            /\ full_G' = ret.graph
            /\ DATA_SOURCE' = ret.source
    /\ UNCHANGED <<variant, mongo, mongoDocs, fileExists, fileDocs, data, idx, built_G,
                   data_source, ret, messages,
                   total_publications, slider_min, slider_max, default_val, max_pubs,
                   selected_types, final_G, prev_G, reran, text_in, text_out>>

SliderMin(total) == IF total >= 1 THEN 1 ELSE 0
SliderMax(total) == IF total >= 1 THEN total ELSE 1
\* the default left at 50 whatever the range
DefaultVal_unclamped(total) == DefaultPubs

DefaultVal(total) == IF total >= DefaultPubs THEN DefaultPubs ELSE SliderMax(total)

\* sorted(list(set(nx.get_node_attributes(full_G, 'type').values()))), as a set
all_node_types(G) == { G.attr[n].type : n \in NodeSet(G) }

\* the sidebar: the slider and the multiselect return what the user has set
\* (a second run is followed as far as its graph)
Controls ==
    /\ pc = "loaded"
    /\ ~reran
    /\ total_publications' = Len(PubNodes(full_G))
    /\ slider_min' = SliderMin(total_publications')
    /\ slider_max' = SliderMax(total_publications')
    /\ default_val' = DefaultVal(total_publications')
    /\ max_pubs' \in slider_min' .. slider_max'
    /\ selected_types' \in SUBSET all_node_types(full_G)
    /\ pc' = "controls"
    /\ UNCHANGED <<variant, mongo, mongoDocs, fileExists, fileDocs, data, idx, built_G,
                   data_source, ret, full_G,
                   DATA_SOURCE, messages, final_G, prev_G, reran, text_in, text_out>>

\* s[:k]
Slice(s, k) ==
    IF k >= 0 THEN SubSeq(s, 1, Min(k, Len(s)))
    ELSE SubSeq(s, 1, IF Len(s) + k > 0 THEN Len(s) + k ELSE 0)

\* the publications and every neighbour of one
nodes_to_consider(G) ==
    Range(PubNodes(G)) \cup UNION { Range(G.adj[p]) : p \in Range(PubNodes(G)) }

\* the last k publications instead of the first
pubs_to_show_last(pubs_in_sub, k, selected) ==
    IF "Publication" \in selected
    THEN Range(SubSeq(pubs_in_sub, Len(pubs_in_sub) - Min(k, Len(pubs_in_sub)) + 1,
                      Len(pubs_in_sub)))
    ELSE {}

\* set(pubs_in_sub[:max_pubs]) if 'Publication' in selected_types else set()
pubs_to_show(pubs_in_sub, k, selected) ==
    IF "Publication" \in selected THEN Range(Slice(pubs_in_sub, k)) ELSE {}

\* a filter that also drops an entity none of whose publications is shown
final_nodes_to_keep_adjacent(sub_G, selected, show) ==
    SelectSeq(sub_G.nodes,
              LAMBDA n : /\ sub_G.attr[n].type \in selected
                         /\ IF sub_G.attr[n].type = "Publication" THEN n \in show
                            ELSE Range(sub_G.adj[n]) \cap show # {})

\* the loop that fills final_nodes_to_keep
final_nodes_to_keep(sub_G, selected, show) ==
    SelectSeq(sub_G.nodes,
              LAMBDA n : /\ sub_G.attr[n].type \in selected
                         /\ sub_G.attr[n].type = "Publication" => n \in show)

\* a view that keeps every edge of a kept node
InducedView_dangling(G, keep) ==
    LET ns == keep \cap NodeSet(G)
    IN  [nodes |-> ns,
         attr  |-> [n \in ns |-> G.attr[n]],
         adj   |-> [n \in ns |-> Range(G.adj[n])]]

\* sub_G.subgraph(keep), a view: its nodes, their attributes and, per node, the
\* neighbours that are in the view (the order of a view's dicts is not modelled)
InducedView(G, keep) ==
    LET ns == keep \cap NodeSet(G)
    IN  [nodes |-> ns,
         attr  |-> [n \in ns |-> G.attr[n]],
         adj   |-> [n \in ns |-> Range(G.adj[n]) \cap ns]]

\* the two-stage selection
Select ==
    /\ pc = "controls"
    /\ \E order \in SubgraphOrders(full_G, nodes_to_consider(full_G)) :
         LET sub_G == Subgraph(full_G, Range(order), order)
             show  == pubs_to_show(PubNodes(sub_G), max_pubs, selected_types)
             keep  == final_nodes_to_keep(sub_G, selected_types, show)
         IN  final_G' = InducedView(sub_G, Range(keep))
    /\ pc' = "selected"
    /\ UNCHANGED <<variant, mongo, mongoDocs, fileExists, fileDocs, data, idx, built_G,
                   data_source, ret, full_G,
                   DATA_SOURCE, messages, total_publications, slider_min, slider_max,
                   default_val, max_pubs, selected_types, prev_G, reran, text_in,
                   text_out>>

\* the layout and the chart, or the warning
Render ==
    /\ pc = "selected"
    /\ IF Cardinality(final_G.nodes) > 0
       THEN /\ pc' = "chart"
            /\ messages' = messages
       ELSE /\ pc' = "warned"
            /\ messages' = messages \cup {"No data to display"}
    /\ UNCHANGED <<variant, mongo, mongoDocs, fileExists, fileDocs, data, idx, built_G,
                   data_source, ret, full_G,
                   DATA_SOURCE, total_publications, slider_min, slider_max, default_val,
                   max_pubs, selected_types, final_G, prev_G, reran, text_in, text_out>>

\* The app is restarted once the graph is built: the script runs again with an
\* empty cache on the same records, which the source may hand over in another
\* order.  What the first graph held is kept aside for comparison.
Rerun ==
    /\ pc = "loaded"
    /\ ~reran
    /\ reran' = TRUE
    /\ prev_G' = Snapshot(full_G)
    /\ mongoDocs' \in Reorderings(mongoDocs)
    /\ fileDocs' \in Reorderings(fileDocs)
    /\ pc' = "start"
    /\ data' = <<>> /\ idx' = 0 /\ built_G' = EmptyGraph /\ data_source' = "unknown"
    /\ ret' = NoReturn
    /\ full_G' = EmptyGraph
    /\ DATA_SOURCE' = "unknown"
    /\ messages' = {}
    /\ total_publications' = 0 /\ slider_min' = 0 /\ slider_max' = 0
    /\ default_val' = 0
    /\ max_pubs' = 0
    /\ selected_types' = {}
    /\ final_G' = NoView
    /\ UNCHANGED <<variant, mongo, fileExists, text_in, text_out>>

Next == LoadGraphData \/ LoopRecord \/ Return \/ Unpack \/ Controls \/ Select \/ Render \/ Rerun

Spec == Init /\ [][Next]_vars

----------------------------------------------------------------------------
(* _clean_text on its own *)

Leads  == { <<>>, <<" ">>, <<"\n", "\t">> }
Words  == { <<>>,
            <<"A", "b", "s", "t", "r", "a", "c", "t">>,
            <<"A", "B", "S", "T", "R", "A", "C", "T">>,
            <<"i", "n", "t", "r", "o", "d", "u", "c", "t", "i", "o", "n">>,
            <<"A", "b", "s", "t", "r", "a", "c", "t", "i", "o", "n">>,
            <<"I", "n", "t", "r", "o", "d", "u", "c", "t", "i", "o", "n", "s">>,
            <<"I", "n", "t", "r", "o">>,
            <<"T", "h", "e", " ", "A", "b", "s", "t", "r", "a", "c", "t">> }
Seps   == { <<>>, <<":">>, <<" ", "-", " ">>, <<":", "\n", " ">>, <<" ">>, <<"\r", "\n">> }
Bodies == { <<>>,
            <<"t", "e", "x", "t", " ", " ", "h", "e", "r", "e">>,
            <<"o", "f", " ", "A", "b", "s", "t", "r", "a", "c", "t", ":", " ", "x">>,
            <<"'", "q", "'">> }
Quotes == { <<>>, <<"\"">>, <<"'">> }

\* the arguments tried: null, a number, and texts put together from the parts
CleanInputs ==
    {None, Num(0), Num(12345)} \cup
    { Str(q \o l \o w \o p \o b \o q) :
        q \in Quotes, l \in Leads, w \in Words, p \in Seps, b \in Bodies }

InitClean ==
    /\ variant = "adi" /\ mongo = "none" /\ mongoDocs = <<>>
    /\ fileExists = FALSE /\ fileDocs = <<>>
    /\ data = <<>> /\ idx = 0 /\ built_G = EmptyGraph /\ data_source = "unknown"
    /\ ret = NoReturn /\ full_G = EmptyGraph /\ DATA_SOURCE = "unknown"
    /\ messages = {}
    /\ total_publications = 0 /\ slider_min = 0 /\ slider_max = 0 /\ default_val = 0
    /\ max_pubs = 0 /\ selected_types = {} /\ final_G = NoView
    /\ prev_G = Snapshot(EmptyGraph) /\ reran = FALSE
    /\ pc = "clean"
    /\ text_in \in CleanInputs
    /\ text_out = <<>>

\* one call of _clean_text
CleanText ==
    /\ pc = "clean"
    /\ text_out' = clean_text(text_in)
    /\ pc' = "cleaned"
    /\ UNCHANGED <<variant, mongo, mongoDocs, fileExists, fileDocs, data, idx, built_G,
                   data_source, ret, full_G,
                   DATA_SOURCE, messages, total_publications, slider_min, slider_max,
                   default_val, max_pubs, selected_types, final_G, prev_G, reran,
                   text_in>>

NextClean == CleanText

SpecClean == InitClean /\ [][NextClean]_vars

----------------------------------------------------------------------------
(* Properties *)

\* the graph has been assembled and handed to the script (it does not change
\* afterwards)
Loaded == pc = "loaded"
\* the view has been derived (the last assignment of the script)
Selected == pc = "selected"

ViewPubs == { n \in final_G.nodes : final_G.attr[n].type = "Publication" }
ViewEdges == UNION { { {u, v} : v \in final_G.adj[u] } : u \in final_G.nodes }

\* C1: with Publication selected, the publications of the view are exactly the
\* first min(max_pubs, P) publications of the graph in its node order; with
\* Publication not selected the view has no publication.
C1_PublicationCap ==
    Selected =>
        LET pubs == PubNodes(full_G)
        IN  ViewPubs = IF "Publication" \in selected_types
                       THEN { pubs[i] : i \in 1 .. Min(max_pubs, Len(pubs)) }
                       ELSE {}

\* the cap cuts: three publications shown out of more
C1_Witness ==
    /\ pc = "selected"
    /\ "Publication" \in selected_types
    /\ max_pubs = 3
    /\ Len(PubNodes(full_G)) > 3
    /\ Cardinality(ViewPubs) = 3

\* C2: a node of the projected graph that is no publication is in the view
\* exactly when its type is selected, whatever the cap and whether or not
\* Publication is selected.
C2_EntityTypeFilter ==
    Selected =>
        \A n \in nodes_to_consider(full_G) :
            full_G.attr[n].type # "Publication" =>
                (n \in final_G.nodes <=> full_G.attr[n].type \in selected_types)

\* an entity is kept although a publication it belongs to was cut, and another
\* entity is absent although a publication it belongs to is shown
C2_Witness ==
    /\ pc = "selected"
    /\ \E n \in final_G.nodes :
         /\ final_G.attr[n].type # "Publication"
         /\ \E p \in Range(full_G.adj[n]) : p \notin final_G.nodes
    /\ \E n \in NodeSet(full_G) \ final_G.nodes :
         /\ full_G.attr[n].type # "Publication"
         /\ \E p \in Range(full_G.adj[n]) : p \in final_G.nodes

\* C3: the edges of the view are exactly the edges of the assembled graph with
\* both ends among the kept nodes.
C3_InducedEdges ==
    Selected =>
        /\ ViewEdges = { e \in EdgeSet(full_G) : e \subseteq final_G.nodes }
        /\ \A n \in final_G.nodes : final_G.adj[n] \subseteq final_G.nodes

\* an entity with publications in the graph is in the view with degree 0,
\* next to publications that are shown
C3_Witness ==
    /\ pc = "selected"
    /\ ViewPubs # {}
    /\ \E n \in final_G.nodes :
         /\ final_G.attr[n].type # "Publication"
         /\ full_G.adj[n] # <<>>
         /\ Cardinality(final_G.adj[n]) = 0

\* the mapping the run read, as the source gave it
SourceMapping == IF DATA_SOURCE = "mongo" THEN mongoDocs ELSE fileDocs

\* the mapping the loop of this entry point iterates for a source mapping
Prepared(entries) ==
    IF variant # "adi" THEN entries
    ELSE IF DATA_SOURCE = "mongo" THEN CleanMongo(entries)
    ELSE CleanJson(entries)

SomeOrder(S) == CHOOSE o \in Orders(S) : TRUE

\* the loop run over a short mapping none of whose records raises
RECURSIVE AssembleOnce(_, _)
AssembleOnce(g, entries) ==
    IF entries = <<>> THEN g
    ELSE AssembleOnce(AddRecord(g, Head(entries),
                                SomeOrder(RecMissions(Head(entries).doc)),
                                SomeOrder(RecOrganisms(Head(entries).doc))),
                      Tail(entries))

RemoveAt(s, i) == SubSeq(s, 1, i - 1) \o SubSeq(s, i + 1, Len(s))

\* the record is to be rejected: no mapping, or a normalised Title under 5 characters
ToReject(doc) == ~doc.isdict \/ Len(clean_text(Get(doc, "Title"))) < 5

\* C4: a record that is no mapping, or whose normalised Title is empty or
\* shorter than 5 characters, has no Publication node, and the nodes and edges
\* are those of the mapping without it.
C4_RejectedContributesNothing ==
    pc = "loaded" =>
        \A i \in DOMAIN SourceMapping :
            ToReject(SourceMapping[i].doc) =>
                /\ ~HasNode(full_G, pub_id(SourceMapping[i].id))
                /\ LET without == AssembleOnce(EmptyGraph,
                                               Prepared(RemoveAt(SourceMapping, i)))
                   IN  /\ NodeSet(full_G) = NodeSet(without)
                       /\ EdgeSet(full_G) = EdgeSet(without)

\* C4 as far as it holds: the same for the entry point that normalises
C4_RejectedContributesNothing_adi == variant = "adi" => C4_RejectedContributesNothing

\* the labels the three extractors give for a record the loop accepts
MissionLabels(doc)  == { Strip(m) : m \in RecMissions(doc) }
KeywordLabels(doc)  ==
    IF Passes(doc) THEN { kw[2] : kw \in Range(FoundKeywords(combined_text(doc))) } ELSE {}
OrganismLabels(doc) == { organism_mapping(o) : o \in RecOrganisms(doc) }

NoRepeat(s) == \A i, j \in DOMAIN s : i # j => s[i] # s[j]

\* C5: every extracted label has one node, keyed and labelled by it and of the
\* extractor's type, adjacent to exactly the accepted publications that mention
\* it; a publication has one edge per label; no edge twice, no self-loop.
C5_OneNodePerLabel ==
    Loaded =>
        LET accepted == { i \in DOMAIN data : Passes(data[i].doc) }
            pub(i)   == pub_id(data[i].id)
        IN  \A found \in { [i \in accepted |->
                              [missions  |-> MissionLabels(data[i].doc),
                               keywds    |-> KeywordLabels(data[i].doc),
                               organisms |-> OrganismLabels(data[i].doc)]] } :
            LET labels(i) == found[i].missions \cup found[i].keywds \cup found[i].organisms
            IN  /\ NoRepeat(full_G.nodes)
                /\ \A n \in NodeSet(full_G) :
                     NoRepeat(full_G.adj[n]) /\ n \notin Range(full_G.adj[n])
                /\ \A i \in accepted :
                     /\ HasNode(full_G, pub(i))
                     /\ Range(full_G.adj[pub(i)]) = labels(i)
                     /\ \A l \in labels(i) :
                          /\ HasNode(full_G, l)
                          /\ full_G.attr[l].label = l
                          /\ full_G.attr[l].type =
                               (IF l \in found[i].missions THEN "Mission"
                                ELSE IF l \in found[i].keywds THEN "Keyword"
                                ELSE "Organism")
                          /\ Range(full_G.adj[l]) =
                               { pub(j) : j \in { k \in accepted : l \in labels(k) } }

N_ISS == <<"I", "S", "S">>

\* two accepted documents mention "ISS": one Mission node, two edges to it
C5_Witness ==
    /\ pc = "loaded"
    /\ HasNode(full_G, N_ISS)
    /\ { n \in NodeSet(full_G) : full_G.attr[n].type = "Mission" } = {N_ISS}
    /\ Len(full_G.adj[N_ISS]) = 2
    /\ Len(PubNodes(full_G)) = 2

\* C6: a second assembly of the same records, in the same or another order,
\* gives the same nodes with the same attributes and the same edges.
C6_OrderIndependent ==
    (reran /\ Loaded) =>
        /\ NodeSet(full_G) = prev_G.nodes
        /\ \A n \in NodeSet(full_G) : full_G.attr[n] = prev_G.attr[n]
        /\ EdgeSet(full_G) = prev_G.edges

\* the second run read the records in another order: its first publication is
\* not the first record's, and both runs met the same entity
C6_Witness ==
    /\ reran
    /\ pc = "loaded"
    /\ Len(PubNodes(full_G)) >= 2
    /\ PubNodes(full_G)[1] # pub_id(IntToStr(1))
    /\ HasNode(full_G, pub_id(IntToStr(1)))
    /\ Cardinality(prev_G.edges) >= 4

\* no record source gave anything: the store is unavailable or empty and the
\* fallback file is missing
SourceUnavailable ==
    IF variant = "adi" THEN ~AdiData.found ELSE ~VisualizeData.found

\* C7: when the source gives nothing usable the script does not crash (it goes
\* on with an empty graph to the empty-state message).
C7_SourceUnavailableHandled ==
    SourceUnavailable =>
        /\ pc # "crashed"
        /\ pc \in {"chart", "warned"} => (pc = "warned" /\ messages # {})

\* C8: the loop over the records never raises, whatever the records hold.
C8_AssemblyNeverRaises == pc # "raised"

\* C8 as far as it holds: the entry point that normalises never raises
C8_AssemblyNeverRaises_adi == variant = "adi" => pc # "raised"

ControlsSet == pc = "controls"

\* C9 as stated: for every P, P = 0 included, the slider gives 1 <= max_pubs <= P
\* and its default is 50 when P >= 50 and P otherwise.
C9_SliderRange_AnyP ==
    ControlsSet =>
        /\ \A k \in slider_min .. slider_max : 1 <= k /\ k <= total_publications
        /\ default_val = IF total_publications >= 50 THEN 50 ELSE total_publications

\* C9: with P >= 1 publications the slider gives 1 <= max_pubs <= P and its
\* default is 50 when P >= 50 and P otherwise; with P = 0 it runs from 0 to 1
\* and its default is 1.
C9_SliderRange ==
    ControlsSet =>
        /\ total_publications = Len(PubNodes(full_G))
        /\ max_pubs \in slider_min .. slider_max
        /\ IF total_publications >= 1
           THEN /\ slider_min = 1
                /\ slider_max = total_publications
                /\ default_val = IF total_publications >= 50 THEN 50
                                 ELSE total_publications
           ELSE /\ slider_min = 0
                /\ slider_max = 1
                /\ default_val = 1

\* more than 50 publications, the default at 50 and the slider at its top
C9_Witness ==
    /\ pc = "controls"
    /\ total_publications > 50
    /\ default_val = 50
    /\ max_pubs = total_publications

\* the text opens (after white space) with one of the two labels
LabelAtStart(t) ==
    \/ LitAt(t, SkipSpace(t, 1), L_Abstract)
    \/ LitAt(t, SkipSpace(t, 1), L_Introduction)

\* ... and the label is the head of a longer word
LongerWordAtStart(t) ==
    /\ LabelAtStart(t)
    /\ LET after == SkipSpace(t, 1) + (IF LitAt(t, SkipSpace(t, 1), L_Abstract)
                                       THEN Len(L_Abstract) ELSE Len(L_Introduction))
       IN  after <= Len(t) /\ IsWord(t[after])

\* C10: null gives the empty text; a text that opens with a longer word
\* beginning like a label, or that has the label only further in, loses no
\* character of a word: only the quotes and the white space are normalised.
C10_LabelOnlyAsWholeWord ==
    pc = "cleaned" =>
        /\ text_in.k = "none" => text_out = <<>>
        /\ (text_in.k = "str" /\ (LongerWordAtStart(text_in.s) \/ ~LabelAtStart(text_in.s)))
             => text_out = Strip(CollapseSpace(StripQuotes(text_in.s)))

\* the non-Publication nodes of a graph
EntityNodes(G) == { n \in NodeSet(G) : G.attr[n].type # "Publication" }

\* the node has a Publication among its neighbours
HasPubNeighbour(G, n) ==
    \E m \in Range(G.adj[n]) : G.attr[m].type = "Publication"

\* C11: in the graph load_graph_data hands over, every non-Publication node has
\* a Publication neighbour, so the publications with their neighbours are all
\* the nodes and the subgraph on them is the assembled graph itself: same
\* nodes in the same order, same attributes, same neighbour lists.
C11_SelectionStage1DropsNothing ==
    Loaded =>
        /\ \A n \in EntityNodes(full_G) : HasPubNeighbour(full_G, n)
        /\ nodes_to_consider(full_G) = NodeSet(full_G)
        /\ \A order \in SubgraphOrders(full_G, nodes_to_consider(full_G)) :
             Subgraph(full_G, Range(order), order) = full_G

\* a graph with two publications and entities of all three types, one of them
\* shared by the two publications
C11_Witness ==
    /\ pc = "loaded"
    /\ Len(PubNodes(full_G)) >= 2
    /\ { full_G.attr[n].type : n \in EntityNodes(full_G) }
         = {"Mission", "Keyword", "Organism"}
    /\ \E n \in EntityNodes(full_G) : Len(full_G.adj[n]) >= 2

====
